---- MODULE Spec2Model ----
(***************************************************************************)
(* Machine lifecycle, job queue and restart rehydration of the laundry bot *)
(* (src/handlers.py, src/services.py, src/main.py).                        *)
(*                                                                         *)
(* The Registry is the `machines` table written by services.py, the timer  *)
(* set is the in-memory job queue of the bot application, time is the      *)
(* wall clock in seconds.  Every handler is one action, except force_,     *)
(* which reads, appends its audit row, suspends on the notification send   *)
(* and resumes: it is two actions with the handler's locals kept between;  *)
(* and ping_, which suspends on the send and again on the answer to the    *)
(* requester before it registers the ping: three actions.                  *)
(***************************************************************************)
EXTENDS Integers, FiniteSets, Bags, TLC

(* ----------------------------- bounds -------------------------------- *)
\* button presses handled in all
MaxRequests == 3

(* --------------------------- program constants ----------------------- *)
\* seconds before the end of the cycle at which the warning job fires
WarnLead == 300
\* minutes under which set_ schedules no warning job
WarnMinMins == 5
\* delay in seconds of the done job of a cycle that ended before the restart
MinDelay == 1
SecsPerMin == 60
\* seconds a machine cannot be pinged again after a ping
PingCooldown == 200
\* seconds within which a user cannot report the same machine again
ComplaintWindow == 3600

(* ------------------------------ domains ------------------------------ *)
Users == {1, 2}
NoUser == 0
NoTime == -1
MachineIds == {"9_washer_1", "9_washer_2"}
NoMachine == "none"

\* the `type` column of a machine row; it never changes, and both machines of
\* the model are washers
MachineType(mid) == "Washer"

\* durations on the set_ buttons show_machine_control_panel builds
ButtonMins(mid) == IF MachineType(mid) = "Washer" THEN {33, 39} ELSE {35, 70}

\* the durations users choose
PressedMins == {33}

\* the instants at which something happens: a request arrives, a job runs, the
\* process restarts.  With a cycle of 33 minutes started at 0 they are the
\* start, the warning, the end of the cycle and the second after it.
Instants == {0, 1680, 1980, 1981}

VARIABLES
    machines,   \* the machines table: id -> stored row
    jobs,       \* the job queue: a bag of pending jobs
    audit_logs, \* the audit_logs table: a bag of rows
    now,        \* the clock, in seconds
    pend,       \* user -> the force_ handler suspended on send_message, or idle
    up,         \* whether the process is running
    requests,   \* number of button presses handled so far
    reply,      \* what the last button handler answered
    cycle,      \* history: machine -> number of cycles started on it
    doneFired,  \* history: machine -> done callbacks run for its current cycle
    starts,     \* history: machine -> users whose set_ was applied at this instant,
                \*   counted from a set_ that found the machine Available
    collected,  \* history: machines whose last applied write was a collect_ of
                \*   their last owner that found them Finished
    hydrated,   \* history: the last restore_timers read the Registry (TRUE before
                \*   any restart)
    complaints, \* the complaints table: a bag of rows
    remaining,  \* the seconds of cooldown the last refused ping_ reported
    pings       \* history: the pings delivered, each with its machine, the
                \*   cycle of the machine, the sender and the instant

vars == <<machines, jobs, audit_logs, now, pend, up, requests, reply, cycle, doneFired, starts, collected, hydrated,
         complaints, remaining, pings>>

Idle == [op |-> "idle", mid |-> NoMachine, victim |-> NoUser]

(* ------------------------- services.py ------------------------------- *)
\* the row of a machine nobody has used
FreshRow ==
    [status |-> "Available", start_time |-> NoTime, end_time |-> NoTime,
     current_user_id |-> NoUser, last_user_id |-> NoUser, last_ping |-> NoTime]

\* _parse_machines with the instant of the end counted as past
presented_status_at_end(row, t) ==
    IF row.status = "Running" /\ row.end_time # NoTime /\ row.end_time <= t
    THEN "Finished"
    ELSE row.status

\* _parse_machines: the status a reader is given for a stored row at time t
PresentedStatus(row, t) ==
    IF row.status = "Running" /\ row.end_time # NoTime /\ row.end_time < t
    THEN "Finished"
    ELSE row.status

\* _parse_machines: the MachineState built from a stored row at time t
ParseMachine(row, t) ==
    [status |-> PresentedStatus(row, t),
     start_time |-> row.start_time,
     end_time |-> row.end_time,
     current_user |-> row.current_user_id,
     last_user |-> row.last_user_id,
     last_ping |-> row.last_ping]

\* get_machine
get_machine(mid) == ParseMachine(machines[mid], now)

\* get_running_machines: ids of the rows of table ms whose stored status is Running
get_running_machines(ms) == {mid \in MachineIds : ms[mid].status = "Running"}

\* update_machine_status without the write of last_user_id
update_keeps_last_user(ms, mid, end_time, user_id, t) ==
    [ms EXCEPT ![mid] =
        [status |-> "Running", start_time |-> t, end_time |-> end_time,
         current_user_id |-> user_id, last_user_id |-> ms[mid].last_user_id,
         last_ping |-> NoTime]]

\* update_machine_status: the table after the update
update_machine_status(ms, mid, end_time, user_id, t) ==
    [ms EXCEPT ![mid] =
        [status |-> "Running", start_time |-> t, end_time |-> end_time,
         current_user_id |-> user_id, last_user_id |-> user_id,
         last_ping |-> NoTime]]

\* reset_machine_status clearing the cycle as make_machine_available does
reset_clears_cycle(ms, mid) ==
    [ms EXCEPT ![mid].status = "Finished", ![mid].current_user_id = NoUser,
               ![mid].start_time = NoTime, ![mid].end_time = NoTime]

\* reset_machine_status with the ownership left in place
reset_keeps_owner(ms, mid) ==
    [ms EXCEPT ![mid].status = "Finished"]

\* reset_machine_status
reset_machine_status(ms, mid) ==
    [ms EXCEPT ![mid].status = "Finished", ![mid].current_user_id = NoUser]

\* make_machine_available
make_machine_available(ms, mid) ==
    [ms EXCEPT ![mid].status = "Available", ![mid].current_user_id = NoUser,
               ![mid].start_time = NoTime, ![mid].end_time = NoTime,
               ![mid].last_ping = NoTime]

\* register_ping: last_ping is the clock of the host, which runs in UTC as the
\* clock the handlers compare it with does
register_ping(ms, mid, t) ==
    [ms EXCEPT ![mid].last_ping = t]

\* the cooldown test of ping_ with the end of the window refused too
ping_allowed_after(last_time, t) ==
    ~(last_time # NoTime /\ t - last_time <= PingCooldown)

\* the cooldown test of ping_ and of show_machine_control_panel: whether a ping
\* may go out at time t when the last one went out at last_time
ping_allowed(last_time, t) ==
    ~(last_time # NoTime /\ t - last_time < PingCooldown)

\* the seconds the refused requester is told to wait
ping_remaining(last_time, t) == PingCooldown - (t - last_time)

\* log_audit_event
log_audit_event(logs, event, mid, victim_id, offender_id) ==
    logs (+) SetToBag({[event |-> event, machine_id |-> mid,
                        victim_id |-> victim_id, offender_id |-> offender_id]})

\* can_submit_complaint with the machine left out of the query
can_submit_any_machine(cs, user_id, mid, t) ==
    ~\E c \in DOMAIN cs :
        /\ c.user_id = user_id
        /\ c.created_at >= t - ComplaintWindow

\* can_submit_complaint: no row of the user for the machine was created at or
\* after one hour before t (the host's local time is UTC, as the Registry's)
can_submit_complaint(cs, user_id, mid, t) ==
    ~\E c \in DOMAIN cs :
        /\ c.user_id = user_id
        /\ c.machine_id = mid
        /\ c.created_at >= t - ComplaintWindow

\* log_complaint: the Registry stamps the row with the time of the insert
log_complaint(cs, user_id, mid, reported_status, t) ==
    cs (+) SetToBag({[user_id |-> user_id, machine_id |-> mid,
                      reported_status |-> reported_status, created_at |-> t]})

(* --------------------------- job queue ------------------------------- *)
Job(kind, mid, chat_id, fireAt, cyc) ==
    [kind |-> kind, mid |-> mid, chat_id |-> chat_id, fireAt |-> fireAt, cyc |-> cyc]

\* job_queue.run_once: one more job in the queue; a job of the same name stays
run_once(q, job) == q (+) SetToBag({job})

\* the removal of the done jobs of a machine alone
cancel_done_jobs(q, mid) ==
    LET keep == {j \in DOMAIN q : ~(j.mid = mid /\ j.kind = "done")} IN [j \in keep |-> q[j]]

\* get_jobs_by_name(done_<mid>) and (5min_<mid>), schedule_removal on each
cancel_jobs(q, mid) ==
    LET keep == {j \in DOMAIN q : j.mid # mid} IN [j \in keep |-> q[j]]

\* a job that ran leaves the queue
remove_job(q, job) == q (-) SetToBag({job})

\* the jobs of set_ with the warning scheduled from five minutes on
set_jobs_warn_from_lead(q, mid, user_id, mins, t, cyc) ==
    LET withDone == run_once(q, Job("done", mid, user_id, t + mins * SecsPerMin, cyc))
    IN  IF mins >= WarnMinMins
        THEN run_once(withDone,
                      Job("5min", mid, user_id, t + (mins - WarnMinMins) * SecsPerMin, cyc))
        ELSE withDone

\* the jobs set_ schedules for a cycle of `mins` minutes started at t
set_jobs(q, mid, user_id, mins, t, cyc) ==
    LET withDone == run_once(q, Job("done", mid, user_id, t + mins * SecsPerMin, cyc))
    IN  IF mins > WarnMinMins
        THEN run_once(withDone,
                      Job("5min", mid, user_id, t + (mins - WarnMinMins) * SecsPerMin, cyc))
        ELSE withDone

\* the loop body of restore_timers without its branch for a cycle that has ended
restore_one_future_only(q, mid, row, t, cyc) ==
    IF row.end_time = NoTime \/ row.current_user_id = NoUser THEN q
    ELSE LET delay == row.end_time - t IN
         IF delay > 0
         THEN LET withDone == run_once(q, Job("done", mid, row.current_user_id, t + delay, cyc))
              IN  IF delay > WarnLead
                  THEN run_once(withDone,
                                Job("5min", mid, row.current_user_id, t + delay - WarnLead, cyc))
                  ELSE withDone
         ELSE q

\* the loop body of restore_timers with the warning restored from five
\* minutes left on
restore_one_warn_from_lead(q, mid, row, t, cyc) ==
    IF row.end_time = NoTime \/ row.current_user_id = NoUser THEN q
    ELSE LET delay == row.end_time - t IN
         IF delay > 0
         THEN LET withDone == run_once(q, Job("done", mid, row.current_user_id, t + delay, cyc))
              IN  IF delay >= WarnLead
                  THEN run_once(withDone,
                                Job("5min", mid, row.current_user_id, t + delay - WarnLead, cyc))
                  ELSE withDone
         ELSE run_once(q, Job("done", mid, row.current_user_id, t + MinDelay, cyc))

\* the body of the loop of restore_timers for one Running machine
restore_one(q, mid, row, t, cyc) ==
    IF row.end_time = NoTime \/ row.current_user_id = NoUser THEN q
    ELSE LET delay == row.end_time - t IN
         IF delay > 0
         THEN LET withDone == run_once(q, Job("done", mid, row.current_user_id, t + delay, cyc))
              IN  IF delay > WarnLead
                  THEN run_once(withDone,
                                Job("5min", mid, row.current_user_id, t + delay - WarnLead, cyc))
                  ELSE withDone
         ELSE run_once(q, Job("done", mid, row.current_user_id, t + MinDelay, cyc))

RECURSIVE restore_loop(_, _, _, _, _)
restore_loop(q, todo, ms, t, cyc) ==
    IF todo = {} THEN q
    ELSE LET mid == CHOOSE m \in todo : TRUE
         IN  restore_loop(restore_one(q, mid, ms[mid], t, cyc[mid]),
                          todo \ {mid}, ms, t, cyc)

\* restore_timers on the empty queue of a fresh process
restore_timers(ms, t, cyc) ==
    restore_loop(EmptyBag, get_running_machines(ms), ms, t, cyc)

(* ------------------------------ Init --------------------------------- *)
Init ==
    /\ machines = [mid \in MachineIds |-> FreshRow]
    /\ jobs = EmptyBag
    /\ audit_logs = EmptyBag
    /\ now = 0
    /\ pend = [u \in Users |-> Idle]
    /\ up = TRUE
    /\ requests = 0
    /\ reply = "none"
    /\ cycle = [mid \in MachineIds |-> 0]
    /\ doneFired = [mid \in MachineIds |-> 0]
    /\ starts = [mid \in MachineIds |-> {}]
    /\ collected = {}
    /\ hydrated = TRUE
    /\ complaints = EmptyBag
    /\ remaining = 0
    /\ pings = {}

\* button_handler is entered: the process runs, the user has no handler
\* suspended, and the press is counted
Accept(user) ==
    /\ up
    /\ pend[user] = Idle
    /\ requests < MaxRequests
    /\ requests' = requests + 1

\* a job of the queue whose time has come
Due(job) == job \in DOMAIN jobs /\ job.fireAt <= now

(* ----------------------------- actions ------------------------------- *)
\* button_handler, data = set_<mid>_<mins>
SetTimer(user, mid, mins) ==
    /\ Accept(user)
    /\ \E dbOk \in BOOLEAN :
        IF dbOk
        THEN /\ machines' = update_machine_status(machines, mid,
                                now + mins * SecsPerMin, user, now)
             /\ jobs' = set_jobs(jobs, mid, user, mins, now, cycle[mid] + 1)
             /\ cycle' = [cycle EXCEPT ![mid] = @ + 1]
             /\ doneFired' = [doneFired EXCEPT ![mid] = 0]
             /\ starts' = [starts EXCEPT ![mid] =
                    IF PresentedStatus(machines[mid], now) = "Available"
                    THEN {user}
                    ELSE IF @ = {} THEN {} ELSE @ \cup {user}]
             /\ collected' = collected \ {mid}
             /\ reply' = "applied"
        ELSE /\ reply' = "error"
             /\ UNCHANGED <<machines, jobs, cycle, doneFired, starts, collected>>
    /\ UNCHANGED <<audit_logs, now, pend, up, hydrated>>
    /\ UNCHANGED <<complaints, remaining, pings>>

\* button_handler, data = force_<mid>: up to the await on send_message
ForceStop(user, mid) ==
    /\ Accept(user)
    /\ LET machine == get_machine(mid) IN
       IF machine.current_user # NoUser
       THEN /\ \E dbOk \in BOOLEAN :
                IF dbOk
                THEN /\ audit_logs' = log_audit_event(audit_logs, "FORCE_STOP", mid,
                                                     machine.current_user, user)
                     /\ pend' = [pend EXCEPT ![user] =
                            [op |-> "force", mid |-> mid, victim |-> machine.current_user]]
                     /\ reply' = "sending"
                ELSE /\ reply' = "error"
                     /\ UNCHANGED <<audit_logs, pend>>
            /\ UNCHANGED <<machines, starts, collected>>
       ELSE /\ \E dbOk \in BOOLEAN :
                IF dbOk
                THEN /\ machines' = reset_machine_status(machines, mid)
                     /\ starts' = [starts EXCEPT ![mid] = {}]
                     /\ collected' = collected \ {mid}
                     /\ reply' = "applied"
                ELSE /\ reply' = "error"
                     /\ UNCHANGED <<machines, starts, collected>>
            /\ UNCHANGED <<audit_logs, pend>>
    /\ UNCHANGED <<jobs, now, up, cycle, doneFired, hydrated>>
    /\ UNCHANGED <<complaints, remaining, pings>>

\* button_handler, data = force_<mid>: from the return of send_message on;
\* `sent` is whether the message to the victim was delivered
ForceStopResume(user, sent) ==
    /\ up
    /\ pend[user].op = "force"
    /\ LET mid == pend[user].mid IN
       /\ jobs' = cancel_jobs(jobs, mid)
       /\ \E dbOk \in BOOLEAN :
            IF dbOk
            THEN /\ machines' = reset_machine_status(machines, mid)
                 /\ starts' = [starts EXCEPT ![mid] = {}]
                 /\ collected' = collected \ {mid}
                 /\ reply' = "applied"
            ELSE /\ reply' = "error"
                 /\ UNCHANGED <<machines, starts, collected>>
    /\ pend' = [pend EXCEPT ![user] = Idle]
    /\ UNCHANGED <<audit_logs, now, up, requests, cycle, doneFired, hydrated>>
    /\ UNCHANGED <<complaints, remaining, pings>>

\* button_handler, data = stop_own_<mid>: the confirmation prompt
StopOwn(user, mid) ==
    /\ Accept(user)
    /\ LET machine == get_machine(mid) IN
       reply' = IF machine.current_user = NoUser \/ machine.current_user # user
                THEN "not_owner"
                ELSE "confirm"
    /\ UNCHANGED <<machines, jobs, audit_logs, now, pend, up, cycle, doneFired,
                   starts, collected, hydrated, complaints, remaining, pings>>

\* confirm_stop_ whose safety check tests only that the machine has an owner
confirm_stop_any_owner(user, mid) ==
    /\ Accept(user)
    /\ LET machine == get_machine(mid) IN
       IF machine.current_user = NoUser
       THEN /\ reply' = "not_owner"
            /\ UNCHANGED <<machines, jobs, starts, collected>>
       ELSE /\ jobs' = cancel_jobs(jobs, mid)
            /\ \E dbOk \in BOOLEAN :
                IF dbOk
                THEN /\ machines' = make_machine_available(machines, mid)
                     /\ starts' = [starts EXCEPT ![mid] = {}]
                     /\ collected' = collected \ {mid}
                     /\ reply' = "applied"
                ELSE /\ reply' = "error"
                     /\ UNCHANGED <<machines, starts, collected>>
    /\ UNCHANGED <<audit_logs, now, pend, up, cycle, doneFired, hydrated>>
    /\ UNCHANGED <<complaints, remaining, pings>>

\* button_handler, data = confirm_stop_<mid>
ConfirmStop(user, mid) ==
    /\ Accept(user)
    /\ LET machine == get_machine(mid) IN
       IF machine.current_user = NoUser \/ machine.current_user # user
       THEN /\ reply' = "not_owner"
            /\ UNCHANGED <<machines, jobs, starts, collected>>
       ELSE /\ jobs' = cancel_jobs(jobs, mid)
            /\ \E dbOk \in BOOLEAN :
                IF dbOk
                THEN /\ machines' = make_machine_available(machines, mid)
                     /\ starts' = [starts EXCEPT ![mid] = {}]
                     /\ collected' = collected \ {mid}
                     /\ reply' = "applied"
                ELSE /\ reply' = "error"
                     /\ UNCHANGED <<machines, starts, collected>>
    /\ UNCHANGED <<audit_logs, now, pend, up, cycle, doneFired, hydrated>>
    /\ UNCHANGED <<complaints, remaining, pings>>

\* button_handler, data = ping_<mid>: up to the await on send_message
Ping(user, mid) ==
    /\ Accept(user)
    /\ LET machine == get_machine(mid) IN
       IF ~ping_allowed(machine.last_ping, now)
       THEN /\ reply' = "cooldown"
            /\ remaining' = ping_remaining(machine.last_ping, now)
            /\ UNCHANGED pend
       ELSE IF machine.last_user # NoUser
       THEN /\ pend' = [pend EXCEPT ![user] =
                    [op |-> "ping", mid |-> mid, victim |-> machine.last_user]]
            /\ reply' = "sending"
            /\ UNCHANGED remaining
       ELSE /\ reply' = "no_history"
            /\ UNCHANGED <<pend, remaining>>
    /\ UNCHANGED <<machines, jobs, audit_logs, now, up, cycle, doneFired, starts,
                   collected, hydrated, complaints, pings>>

\* button_handler, data = ping_<mid>: send_message returns or raises; after a
\* delivery the handler awaits query.answer
PingResume(user, sent) ==
    /\ up
    /\ pend[user].op = "ping"
    /\ IF sent
       THEN /\ pend' = [pend EXCEPT ![user].op = "ping_sent"]
            /\ pings' = pings \cup {[mid |-> pend[user].mid, cyc |-> cycle[pend[user].mid],
                                      user |-> user, at |-> now]}
            /\ UNCHANGED reply
       ELSE /\ pend' = [pend EXCEPT ![user] = Idle]
            /\ reply' = "ping_failed"
            /\ UNCHANGED pings
    /\ UNCHANGED <<machines, jobs, audit_logs, now, up, requests, cycle, doneFired,
                   starts, collected, hydrated, complaints, remaining>>

\* button_handler, data = ping_<mid>: query.answer returns or raises, then
\* register_ping; whatever raises is caught by the except of the send
PingRegister(user, answered) ==
    /\ up
    /\ pend[user].op = "ping_sent"
    /\ \E dbOk \in BOOLEAN :
        IF answered /\ dbOk
        THEN /\ machines' = register_ping(machines, pend[user].mid, now)
             /\ reply' = "pinged"
        ELSE /\ reply' = "ping_failed"
             /\ UNCHANGED machines
    /\ pend' = [pend EXCEPT ![user] = Idle]
    /\ UNCHANGED <<jobs, audit_logs, now, up, requests, cycle, doneFired, starts,
                   collected, hydrated, complaints, remaining, pings>>

\* button_handler, data = collect_<mid>
Collect(user, mid) ==
    /\ Accept(user)
    /\ \E dbOk \in BOOLEAN :
        IF dbOk
        THEN /\ machines' = make_machine_available(machines, mid)
             /\ starts' = [starts EXCEPT ![mid] = {}]
             /\ collected' = IF /\ PresentedStatus(machines[mid], now) = "Finished"
                                /\ machines[mid].last_user_id = user
                             THEN collected \cup {mid}
                             ELSE collected
             /\ reply' = "applied"
        ELSE /\ reply' = "error"
             /\ UNCHANGED <<machines, starts, collected>>
    /\ UNCHANGED <<jobs, audit_logs, now, pend, up, cycle, doneFired, hydrated>>
    /\ UNCHANGED <<complaints, remaining, pings>>

\* alarm_done, run by the job queue when a done job is due; `sent` is whether
\* the message was delivered
AlarmDone(job, sent) ==
    /\ up
    /\ Due(job)
    /\ job.kind = "done"
    /\ jobs' = remove_job(jobs, job)
    /\ doneFired' = [doneFired EXCEPT ![job.mid] =
            IF job.cyc = cycle[job.mid] THEN @ + 1 ELSE @]
    /\ UNCHANGED <<machines, audit_logs, now, pend, up, requests, reply, cycle,
                   starts, collected, hydrated>>
    /\ UNCHANGED <<complaints, remaining, pings>>

\* alarm_5min, run by the job queue when a warning job is due
Alarm5min(job, sent) ==
    /\ up
    /\ Due(job)
    /\ job.kind = "5min"
    /\ jobs' = remove_job(jobs, job)
    /\ UNCHANGED <<machines, audit_logs, now, pend, up, requests, reply, cycle,
                   doneFired, starts, collected, hydrated>>
    /\ UNCHANGED <<complaints, remaining, pings>>

\* the process dies: the job queue and the suspended handlers are lost
Crash ==
    /\ up
    /\ up' = FALSE
    /\ jobs' = EmptyBag
    /\ pend' = [u \in Users |-> Idle]
    /\ UNCHANGED <<machines, audit_logs, now, requests, reply, cycle, doneFired,
                   starts, collected, hydrated>>
    /\ UNCHANGED <<complaints, remaining, pings>>

\* the process starts: startup_event / post_init run restore_timers, whose
\* read of the Running machines succeeds or raises
Startup(dbOk) ==
    /\ ~up
    /\ up' = TRUE
    /\ jobs' = IF dbOk THEN restore_timers(machines, now, cycle) ELSE EmptyBag
    /\ hydrated' = dbOk
    /\ UNCHANGED <<machines, audit_logs, now, pend, requests, reply, cycle, doneFired,
                   starts, collected>>
    /\ UNCHANGED <<complaints, remaining, pings>>

\* the clock advances to the next instant; jobs that are due may still be waiting
Tick(t) ==
    /\ t > now
    /\ \A s \in Instants : ~(now < s /\ s < t)
    /\ now' = t
    /\ starts' = [mid \in MachineIds |-> {}]
    /\ UNCHANGED <<machines, jobs, audit_logs, pend, up, requests, reply, cycle,
                   doneFired, collected, hydrated>>
    /\ UNCHANGED <<complaints, remaining, pings>>

Next ==
    \/ \E user \in Users, mid \in MachineIds :
            \E mins \in ButtonMins(mid) \cap PressedMins : SetTimer(user, mid, mins)
    \/ \E user \in Users, mid \in MachineIds : ForceStop(user, mid)
    \/ \E user \in Users, sent \in BOOLEAN : ForceStopResume(user, sent)
    \/ \E user \in Users, mid \in MachineIds : ConfirmStop(user, mid)
    \/ \E user \in Users, mid \in MachineIds : Collect(user, mid)
    \/ \E job \in DOMAIN jobs, sent \in BOOLEAN : AlarmDone(job, sent)
    \/ \E job \in DOMAIN jobs, sent \in BOOLEAN : Alarm5min(job, sent)
    \/ Crash
    \/ \E dbOk \in BOOLEAN : Startup(dbOk)
    \/ \E t \in Instants : Tick(t)

Spec == Init /\ [][Next]_vars

(* ------------------- stopping one's own laundry ---------------------- *)
\* the requests and jobs of a process that stays up, with the confirmation
\* prompt of stop_own_
NextStop ==
    \/ \E user \in Users, mid \in MachineIds :
            \E mins \in ButtonMins(mid) \cap PressedMins : SetTimer(user, mid, mins)
    \/ \E user \in Users, mid \in MachineIds : ForceStop(user, mid)
    \/ \E user \in Users, sent \in BOOLEAN : ForceStopResume(user, sent)
    \/ \E user \in Users, mid \in MachineIds : StopOwn(user, mid)
    \/ \E user \in Users, mid \in MachineIds : ConfirmStop(user, mid)
    \/ \E user \in Users, mid \in MachineIds : Collect(user, mid)
    \/ \E job \in DOMAIN jobs, sent \in BOOLEAN : AlarmDone(job, sent)
    \/ \E job \in DOMAIN jobs, sent \in BOOLEAN : Alarm5min(job, sent)
    \/ \E t \in Instants : Tick(t)

SpecStop == Init /\ [][NextStop]_vars

(* ---------------- set_ with any duration in its data ----------------- *)
\* a duration a set_ callback can carry that is on no button: one for which
\* set_ schedules no warning
CraftedMins == {5}

NextStart ==
    \/ \E user \in Users, mid \in MachineIds :
            \E mins \in ButtonMins(mid) \cup CraftedMins : SetTimer(user, mid, mins)
    \/ \E user \in Users, mid \in MachineIds : Collect(user, mid)
    \/ \E t \in Instants : Tick(t)

SpecStart == Init /\ [][NextStart]_vars

(* ------------------ requests naming no machine row ------------------- *)
\* a machine id the machines table has no row for
UnknownIds == {"9_washer_9"}

\* a handler that dereferences the None get_machine returned for the id
\* (machine.current_user, machine.last_ping): the AttributeError ends it
RaisesOnNone(user) ==
    /\ Accept(user)
    /\ reply' = "error"
    /\ UNCHANGED <<machines, jobs, audit_logs, now, pend, up, cycle, doneFired,
                   starts, collected, hydrated, complaints, remaining, pings>>

\* button_handler, data = set_<mid>_<mins> for an id without a row: the update
\* matches no row and returns, then the jobs are scheduled
SetTimerNoRow(user, mid, mins) ==
    /\ Accept(user)
    /\ mid \notin DOMAIN machines
    /\ \E dbOk \in BOOLEAN :
        IF dbOk
        THEN /\ jobs' = set_jobs(jobs, mid, user, mins, now, 0)
             /\ reply' = "applied"
        ELSE /\ reply' = "error"
             /\ UNCHANGED jobs
    /\ UNCHANGED <<machines, audit_logs, now, pend, up, cycle, doneFired, starts,
                   collected, hydrated, complaints, remaining, pings>>

\* button_handler, data = force_<mid> for an id without a row
ForceStopNoRow(user, mid) ==
    /\ mid \notin DOMAIN machines
    /\ RaisesOnNone(user)

\* button_handler, data = stop_own_<mid> or confirm_stop_<mid> for an id
\* without a row
StopOwnNoRow(user, mid) ==
    /\ mid \notin DOMAIN machines
    /\ RaisesOnNone(user)

\* button_handler, data = ping_<mid> for an id without a row
PingNoRow(user, mid) ==
    /\ mid \notin DOMAIN machines
    /\ RaisesOnNone(user)

\* button_handler, data = collect_<mid> for an id without a row: the update
\* matches no row and the user is told the machine is Available
CollectNoRow(user, mid) ==
    /\ Accept(user)
    /\ mid \notin DOMAIN machines
    /\ \E dbOk \in BOOLEAN : reply' = IF dbOk THEN "applied" ELSE "error"
    /\ UNCHANGED <<machines, jobs, audit_logs, now, pend, up, cycle, doneFired,
                   starts, collected, hydrated, complaints, remaining, pings>>

NextNoRow ==
    \/ \E user \in Users, mid \in MachineIds :
            \E mins \in ButtonMins(mid) \cap PressedMins : SetTimer(user, mid, mins)
    \/ \E user \in Users, mid \in MachineIds : Collect(user, mid)
    \/ \E user \in Users, mid \in UnknownIds :
            \E mins \in PressedMins : SetTimerNoRow(user, mid, mins)
    \/ \E user \in Users, mid \in UnknownIds : ForceStopNoRow(user, mid)
    \/ \E user \in Users, mid \in UnknownIds : StopOwnNoRow(user, mid)
    \/ \E user \in Users, mid \in UnknownIds : PingNoRow(user, mid)
    \/ \E user \in Users, mid \in UnknownIds : CollectNoRow(user, mid)
    \/ \E t \in Instants : Tick(t)

SpecNoRow == Init /\ [][NextNoRow]_vars

(* ----------------------- pings on a finished cycle -------------------- *)
\* the instants of the pings: the second after the end of a cycle started at 0,
\* then 100, 200 and 201 seconds later
PingInstants == {1981, 2081, 2181, 2182}

\* the clock advances to the next instant of the set `instants`
Advance(t, instants) ==
    /\ t \in instants
    /\ t > now
    /\ \A s \in instants : ~(now < s /\ s < t)
    /\ now' = t
    /\ starts' = [mid \in MachineIds |-> {}]
    /\ UNCHANGED <<machines, jobs, audit_logs, pend, up, requests, reply, cycle,
                   doneFired, collected, hydrated, complaints, remaining, pings>>

\* user 1 started the first washer at 0 for 33 minutes; the cycle has ended a
\* second ago and its two jobs have run
InitPing ==
    /\ machines = update_machine_status([mid \in MachineIds |-> FreshRow],
                        "9_washer_1", 33 * SecsPerMin, 1, 0)
    /\ jobs = EmptyBag
    /\ audit_logs = EmptyBag
    /\ now = 1981
    /\ pend = [u \in Users |-> Idle]
    /\ up = TRUE
    /\ requests = 0
    /\ reply = "none"
    /\ cycle = [mid \in MachineIds |-> IF mid = "9_washer_1" THEN 1 ELSE 0]
    /\ doneFired = [mid \in MachineIds |-> IF mid = "9_washer_1" THEN 1 ELSE 0]
    /\ starts = [mid \in MachineIds |-> {}]
    /\ collected = {}
    /\ hydrated = TRUE
    /\ complaints = EmptyBag
    /\ remaining = 0
    /\ pings = {}

NextPing ==
    \/ \E user \in Users, mid \in MachineIds :
            \E mins \in ButtonMins(mid) \cap PressedMins : SetTimer(user, mid, mins)
    \/ \E user \in Users, mid \in MachineIds : Ping(user, mid)
    \/ \E user \in Users, sent \in BOOLEAN : PingResume(user, sent)
    \/ \E user \in Users, answered \in BOOLEAN : PingRegister(user, answered)
    \/ \E user \in Users, mid \in MachineIds : Collect(user, mid)
    \/ \E t \in PingInstants : Advance(t, PingInstants)

SpecPing == InitPing /\ [][NextPing]_vars

(* ----------------------------- complaints ---------------------------- *)
\* button_handler, data = complain_sel_<mid>: the confirmation screen
ComplainSel(user, mid) ==
    /\ Accept(user)
    /\ reply' = IF can_submit_complaint(complaints, user, mid, now)
                THEN "confirm_report"
                ELSE "report_wait"
    /\ UNCHANGED <<machines, jobs, audit_logs, now, pend, up, cycle, doneFired,
                   starts, collected, hydrated, complaints, remaining, pings>>

\* button_handler, data = complain_confirm_<mid>
ComplainConfirm(user, mid) ==
    /\ Accept(user)
    /\ LET machine == get_machine(mid) IN
       IF ~can_submit_complaint(complaints, user, mid, now)
       THEN /\ reply' = "rate_limited"
            /\ UNCHANGED complaints
       ELSE \E dbOk \in BOOLEAN :
                IF dbOk
                THEN /\ complaints' = log_complaint(complaints, user, mid,
                                                    machine.status, now)
                     /\ reply' = "reported"
                ELSE /\ reply' = "error"
                     /\ UNCHANGED complaints
    /\ UNCHANGED <<machines, jobs, audit_logs, now, pend, up, cycle, doneFired,
                   starts, collected, hydrated, remaining, pings>>

\* the instants of the reports: the first, then 30, 60 and 61 minutes later
ComplainInstants == {0, 1800, 3600, 3660}

NextComplain ==
    \/ \E user \in Users, mid \in MachineIds :
            \E mins \in ButtonMins(mid) \cap PressedMins : SetTimer(user, mid, mins)
    \/ \E user \in Users, mid \in MachineIds : ComplainSel(user, mid)
    \/ \E user \in Users, mid \in MachineIds : ComplainConfirm(user, mid)
    \/ \E t \in ComplainInstants : Advance(t, ComplainInstants)

SpecComplain == Init /\ [][NextComplain]_vars

(* ---------------- force_ by two users who own no cycle ----------------- *)
\* a user of the users table who started the cycle and presses nothing here
CycleOwner == 3

\* the state after CycleOwner pressed set_9_washer_1_33 at 0
InitForce ==
    /\ machines = update_machine_status([mid \in MachineIds |-> FreshRow],
                        "9_washer_1", 33 * SecsPerMin, CycleOwner, 0)
    /\ jobs = set_jobs(EmptyBag, "9_washer_1", CycleOwner, 33, 0, 1)
    /\ audit_logs = EmptyBag
    /\ now = 0
    /\ pend = [u \in Users |-> Idle]
    /\ up = TRUE
    /\ requests = 0
    /\ reply = "none"
    /\ cycle = [mid \in MachineIds |-> IF mid = "9_washer_1" THEN 1 ELSE 0]
    /\ doneFired = [mid \in MachineIds |-> 0]
    /\ starts = [mid \in MachineIds |-> IF mid = "9_washer_1" THEN {CycleOwner} ELSE {}]
    /\ collected = {}
    /\ hydrated = TRUE
    /\ complaints = EmptyBag
    /\ remaining = 0
    /\ pings = {}

NextForce ==
    \/ \E user \in Users, mid \in MachineIds : ForceStop(user, mid)
    \/ \E user \in Users, sent \in BOOLEAN : ForceStopResume(user, sent)
    \/ \E user \in Users, mid \in MachineIds : Collect(user, mid)
    \/ \E job \in DOMAIN jobs, sent \in BOOLEAN : AlarmDone(job, sent)
    \/ \E job \in DOMAIN jobs, sent \in BOOLEAN : Alarm5min(job, sent)
    \/ \E t \in Instants : Tick(t)

SpecForce == InitForce /\ [][NextForce]_vars

(* ------------------------- the start of the process ------------------- *)
\* the functions that handlers.py defines at module level
HandlerNames ==
    {"format_time_delta", "format_machine_name", "escape_md", "safe_edit_message",
     "set_bot_commands", "alarm_5min", "alarm_done", "restore_timers", "help_command",
     "register_command", "start_command", "status_command", "complain_command",
     "stats_command", "generate_heatmap", "generate_hourly_bar_chart",
     "send_level_selection_menu", "send_complain_menu", "show_machine_control_panel",
     "handle_registration_text", "send_status_text", "button_handler"}

\* the attributes of handlers that register_handlers reads, in its order
RegisteredNames ==
    <<"start_command", "register_command", "status_command", "report_command",
      "stats_command", "help_command", "button_handler", "handle_registration_text">>

\* register_handlers returns (TRUE) or raises AttributeError on the first
\* attribute the module does not have (FALSE)
register_handlers == \A i \in DOMAIN RegisteredNames : RegisteredNames[i] \in HandlerNames

\* startup_event, and the polling entry with post_init: register_handlers,
\* then initialize, start, set_bot_commands and restore_timers (Startup).  An
\* exception of register_handlers ends the start: the server does not come up,
\* no update is processed and restore_timers is not called.
StartupEvent(dbOk) ==
    IF register_handlers
    THEN Startup(dbOk)
    ELSE /\ ~up
         /\ hydrated' = FALSE
         /\ UNCHANGED <<machines, jobs, audit_logs, now, pend, up, requests, reply, cycle,
                        doneFired, starts, collected>>
         /\ UNCHANGED <<complaints, remaining, pings>>

\* the rows an earlier run of the process can have left in the Registry: never
\* used, Running for either user since 0, or force-stopped
BootRows ==
    LET fresh == [mid \in MachineIds |-> FreshRow] IN
    {FreshRow}
      \cup {update_machine_status(fresh, "9_washer_1", 33 * SecsPerMin, u, 0)["9_washer_1"] :
                u \in Users}
      \cup {reset_machine_status(
                update_machine_status(fresh, "9_washer_1", 33 * SecsPerMin, u, 0),
                "9_washer_1")["9_washer_1"] : u \in Users}

\* the process is down and about to be started over a Registry left by an
\* earlier run
InitBoot ==
    /\ machines \in [MachineIds -> BootRows]
    /\ jobs = EmptyBag
    /\ audit_logs = EmptyBag
    /\ now = 0
    /\ pend = [u \in Users |-> Idle]
    /\ up = FALSE
    /\ requests = 0
    /\ reply = "none"
    /\ cycle = [mid \in MachineIds |-> IF machines[mid] = FreshRow THEN 0 ELSE 1]
    /\ doneFired = [mid \in MachineIds |-> 0]
    /\ starts = [mid \in MachineIds |-> {}]
    /\ collected = {}
    /\ hydrated = TRUE
    /\ complaints = EmptyBag
    /\ remaining = 0
    /\ pings = {}

NextBoot ==
    \/ \E dbOk \in BOOLEAN : StartupEvent(dbOk)
    \/ \E t \in Instants : Tick(t)

SpecBoot == InitBoot /\ [][NextBoot]_vars

(* ------------------------------ claims ------------------------------- *)
\* the jobs of kind `kind` pending for machine mid in queue q
JobsFor(q, kind, mid) == {j \in DOMAIN q : j.kind = kind /\ j.mid = mid}

\* C1: every machine a reader presents has status Running exactly when it has
\* a current owner: Running implies an owner, Finished and Available imply none.
C1_DerivedStatusOwner ==
    \A mid \in MachineIds :
        (get_machine(mid).status = "Running") <=> (get_machine(mid).current_user # NoUser)

\* C2: of the set_ requests of different users handled at one instant against a
\* machine that was Available, only one is applied.
C2_ExactlyOneStart ==
    \A mid \in MachineIds : Cardinality(starts[mid]) <= 1

\* C3: a set_ request for a machine that is Running under another user with its
\* cycle end in the future is not applied: the row of the machine and the job
\* queue stay as they are.
C3_RunningStartRejected ==
    [][\A user \in Users, mid \in MachineIds :
          (/\ \E mins \in ButtonMins(mid) : SetTimer(user, mid, mins)
           /\ get_machine(mid).status = "Running"
           /\ machines[mid].end_time > now
           /\ machines[mid].current_user_id # user)
          => (/\ machines'[mid] = machines[mid]
              /\ jobs' = jobs
              /\ reply' # "applied")]_vars

\* C4: a force_ request on a machine with an owner appends exactly one audit row
\* (FORCE_STOP, machine, victim = the owner, offender = the actor) and attempts
\* the notification of the owner; once it completes the machine is stored
\* Finished with no current owner, no done or 5min job is pending for it, and the
\* same step is taken whether the notification was delivered or not.
C4_ForceStopCompletes ==
    [][\A user \in Users :
          /\ \A mid \in MachineIds :
                (machines[mid].current_user_id # NoUser /\ reply' = "sending"
                                                        /\ ForceStop(user, mid))
                => (/\ audit_logs' = audit_logs (+) SetToBag({
                            [event |-> "FORCE_STOP", machine_id |-> mid,
                             victim_id |-> machines[mid].current_user_id,
                             offender_id |-> user]})
                    /\ pend'[user].victim = machines[mid].current_user_id
                    /\ pend'[user].mid = mid)
          /\ \A sent \in BOOLEAN :
                (reply' = "applied" /\ ForceStopResume(user, sent))
                => (/\ machines'[pend[user].mid].status = "Finished"
                    /\ machines'[pend[user].mid].current_user_id = NoUser
                    /\ JobsFor(jobs', "done", pend[user].mid) = {}
                    /\ JobsFor(jobs', "5min", pend[user].mid) = {}
                    /\ audit_logs' = audit_logs
                    /\ ForceStopResume(user, ~sent))]_vars

\* a force_ of one user against another user's machine has completed
C4_Witness ==
    \E row \in DOMAIN audit_logs :
        /\ row.victim_id # row.offender_id
        /\ machines[row.machine_id].status = "Finished"
        /\ machines[row.machine_id].last_user_id = row.victim_id
        /\ machines[row.machine_id].end_time > now
        /\ pend[row.offender_id] = Idle
        /\ reply = "applied"
        /\ requests = 2

\* C5: when the done job of the current cycle of a machine runs, the stored row
\* becomes Finished without a current owner, and keeps its last owner and end time.
C5_DoneAppliesExpiry ==
    [][\A job \in DOMAIN jobs, sent \in BOOLEAN :
          (/\ AlarmDone(job, sent)
           /\ job.cyc = cycle[job.mid]
           /\ machines[job.mid].status = "Running"
           /\ machines[job.mid].current_user_id = job.chat_id)
          => (/\ machines'[job.mid].status = "Finished"
              /\ machines'[job.mid].current_user_id = NoUser
              /\ machines'[job.mid].last_user_id = job.chat_id
              /\ machines'[job.mid].end_time = machines[job.mid].end_time)]_vars

\* the done jobs of queue q are those table ms implies at time t: one per
\* stored-Running machine, for its owner, at its end time or, when that is not
\* ahead, after the minimal delay; none for any other machine
DoneJobsMatch(q, ms, t) ==
    \A mid \in MachineIds :
        LET dj == JobsFor(q, "done", mid) IN
        IF ms[mid].status = "Running"
        THEN /\ Cardinality(dj) = 1
             /\ \A j \in dj :
                    /\ q[j] = 1
                    /\ j.chat_id = ms[mid].current_user_id
                    /\ j.fireAt = IF ms[mid].end_time > t THEN ms[mid].end_time
                                  ELSE t + MinDelay
        ELSE dj = {}

\* C6: after a start of the process in which restore_timers read the Registry,
\* the pending done jobs are exactly those the Registry implies.
C6_RehydrateExact ==
    [][Startup(TRUE) => DoneJobsMatch(jobs', machines', now')]_vars

\* the process has restarted with one machine whose cycle has ended and one whose
\* cycle has not, and holds a done job for each
C6_Witness ==
    /\ up /\ hydrated
    /\ \E m1, m2 \in MachineIds :
        /\ machines[m1].status = "Running" /\ machines[m1].end_time <= now
        /\ \E j \in JobsFor(jobs, "done", m1) : j.fireAt = now + MinDelay
        /\ machines[m2].status = "Running" /\ machines[m2].end_time > now
        /\ \E j \in JobsFor(jobs, "done", m2) : j.fireAt = machines[m2].end_time

\* C7: a stored-Running machine of a running, rehydrated process has a done job
\* of its current cycle pending unless that cycle's done job has already run.
C7_RunningHasDone ==
    (up /\ hydrated) =>
        \A mid \in MachineIds :
            machines[mid].status = "Running" =>
                \/ doneFired[mid] > 0
                \/ \E j \in JobsFor(jobs, "done", mid) : j.cyc = cycle[mid]

\* C8: the done callback runs at most once for a cycle.
C8_DoneAtMostOnce ==
    \A mid \in MachineIds : doneFired[mid] <= 1

\* C9: at most one job is pending per machine and kind.
C9_OneTimerPerKey ==
    \A j \in DOMAIN jobs :
        /\ jobs[j] = 1
        /\ \A k \in DOMAIN jobs : (k.kind = j.kind /\ k.mid = j.mid) => k = j

\* C10: a collect_ on a machine that a collect_ of its last owner has just made
\* Available out of Finished is not answered as applied, and changes no row and
\* no job.
C10_SecondCollectRejected ==
    [][\A user \in Users, mid \in MachineIds :
          (Collect(user, mid) /\ mid \in collected)
          => (/\ reply' # "applied"
              /\ machines' = machines
              /\ jobs' = jobs)]_vars

\* C11: a collect_ request on a machine that is not presented Finished, or from
\* a user who is not its last owner, changes no machine row; so no
\* stored-Running machine with its cycle end ahead is made Available by it.
C11_CollectOnlyFinishedByLastOwner ==
    [][\A user \in Users, mid \in MachineIds :
          (/\ Collect(user, mid)
           /\ \/ get_machine(mid).status # "Finished"
              \/ get_machine(mid).last_user # user)
          => machines' = machines]_vars

\* C12: a stop_own_ or a confirm_stop_ request from a user who is not the
\* current owner of the machine, the machine having no owner included, is
\* answered "not owner", changes no machine row and cancels no job.
C12_StopOwnNotOwnerRejected ==
    [][\A user \in Users, mid \in MachineIds :
          (machines[mid].current_user_id # user
           /\ (StopOwn(user, mid) \/ ConfirmStop(user, mid)))
          => (/\ reply' = "not_owner"
              /\ machines' = machines
              /\ jobs' = jobs)]_vars

\* both machines run for user 1 with their done jobs pending, and the stop that
\* came last, which only user 2 can have been refused, was refused
C12_Witness ==
    /\ requests = 3
    /\ reply = "not_owner"
    /\ \A mid \in MachineIds :
        /\ machines[mid].status = "Running"
        /\ machines[mid].current_user_id = 1
        /\ machines[mid].end_time > now
        /\ JobsFor(jobs, "done", mid) # {}
        /\ JobsFor(jobs, "5min", mid) # {}

\* C13: any two pings delivered for the same machine within one cycle are at
\* least 200 seconds apart.
C13_PingsSpaced ==
    \A p, q \in pings :
        (p # q /\ p.mid = q.mid /\ p.cyc = q.cyc)
        => (p.at - q.at >= 200 \/ q.at - p.at >= 200)

C17_PingOnlyFinishedNonOwner ==
    [][\A user \in Users, mid \in MachineIds :
          (/\ Ping(user, mid)
           /\ \/ get_machine(mid).status # "Finished"
              \/ get_machine(mid).last_user = user)
          => (/\ reply' # "sending"
              /\ pend' = pend
              /\ machines' = machines)]_vars

\* C20: what a handler or a job does after its notification attempt is the same
\* whether the message was delivered or not.  force_ and the two jobs take the
\* same step either way; ping_ ends without a write when the send fails, so
\* after a delivery it writes no row and changes no job either.
C20_NotifierFailureNoEffect ==
    [][/\ \A user \in Users, sent \in BOOLEAN :
            ForceStopResume(user, sent) => ForceStopResume(user, ~sent)
       /\ \A job \in DOMAIN jobs, sent \in BOOLEAN :
            /\ AlarmDone(job, sent) => AlarmDone(job, ~sent)
            /\ Alarm5min(job, sent) => Alarm5min(job, ~sent)
       /\ \A user \in Users :
            (PingResume(user, TRUE) \/ \E answered \in BOOLEAN : PingRegister(user, answered))
            => (machines' = machines /\ jobs' = jobs)]_vars

C16_ForceStopOnlyRunningOther ==
    [][\A user \in Users, mid \in MachineIds :
          (/\ ForceStop(user, mid)
           /\ \/ get_machine(mid).status # "Running"
              \/ get_machine(mid).current_user = NoUser
              \/ get_machine(mid).current_user = user)
          => (/\ machines' = machines
              /\ audit_logs' = audit_logs
              /\ pend' = pend)]_vars

\* C18: a force_ that resumes after its send on a machine whose current owner is
\* no longer the one it read writes no row and cancels no job.
C18_StaleForceStopNoWrite ==
    [][\A user \in Users, sent \in BOOLEAN :
          (/\ ForceStopResume(user, sent)
           /\ machines[pend[user].mid].current_user_id # pend[user].victim)
          => (/\ machines' = machines
              /\ jobs' = jobs)]_vars

\* C19: a set_, force_ or confirm_stop_ whose Registry write fails leaves the
\* job queue as it was.
C19_FailedWriteKeepsTimers ==
    [][\A user \in Users, mid \in MachineIds :
          (/\ \/ \E mins \in ButtonMins(mid) : SetTimer(user, mid, mins)
              \/ ForceStop(user, mid)
              \/ \E sent \in BOOLEAN : ForceStopResume(user, sent)
              \/ ConfirmStop(user, mid)
           /\ reply' = "error")
          => jobs' = jobs]_vars

C23_TimerReadsCurrentState ==
    [][\A job \in DOMAIN jobs :
          (AlarmDone(job, TRUE) \/ Alarm5min(job, TRUE))
          => (/\ machines[job.mid].status = "Running"
              /\ machines[job.mid].current_user_id = job.chat_id
              /\ job.cyc = cycle[job.mid])]_vars

\* C24: every pending done job belongs to a machine that is stored Running and
\* owned by the user the job is addressed to.
C24_NoOrphanTimers ==
    \A mid \in MachineIds :
        \A j \in JobsFor(jobs, "done", mid) :
            /\ machines[mid].status = "Running"
            /\ machines[mid].current_user_id = j.chat_id

\* C30: every machine presented Running or Finished has a last owner.
C30_LastOwnerSet ==
    \A mid \in MachineIds :
        get_machine(mid).status \in {"Running", "Finished"}
        => get_machine(mid).last_user # NoUser

\* C21: a set_, force_, stop_own_, confirm_stop_, collect_ or ping_ request for
\* an id the machines table has no row for changes no row and no job.
C21_UnknownMachineNoChange ==
    [][\A user \in Users, mid \in UnknownIds :
          (\/ \E mins \in PressedMins : SetTimerNoRow(user, mid, mins)
           \/ ForceStopNoRow(user, mid)
           \/ StopOwnNoRow(user, mid)
           \/ PingNoRow(user, mid)
           \/ CollectNoRow(user, mid))
          => (machines' = machines /\ jobs' = jobs)]_vars

\* C25: a set_ for d minutes applied at time now to a machine presented
\* Available stores it Running, owned and last owned by the requester, started
\* now, ending d minutes from now, with no last ping; it adds one done job d
\* minutes from now and, when d > 5, one 5min job d - 5 minutes from now, both
\* addressed to the requester; no other row and no other job changes.
C25_StartCycleEffect ==
    [][\A user \in Users, mid \in MachineIds :
          \A mins \in ButtonMins(mid) \cup CraftedMins :
            (/\ reply' = "applied"
             /\ get_machine(mid).status = "Available"
             /\ SetTimer(user, mid, mins))
            => (/\ machines'[mid] =
                      [status |-> "Running", start_time |-> now,
                       end_time |-> now + mins * 60,
                       current_user_id |-> user, last_user_id |-> user,
                       last_ping |-> NoTime]
                /\ \A other \in MachineIds \ {mid} : machines'[other] = machines[other]
                /\ jobs' = jobs
                      (+) SetToBag({Job("done", mid, user, now + mins * 60,
                                        cycle[mid] + 1)})
                      (+) (IF mins > 5
                           THEN SetToBag({Job("5min", mid, user, now + (mins - 5) * 60,
                                              cycle[mid] + 1)})
                           ELSE EmptyBag))]_vars

\* user 1 has just started the first washer for 33 minutes: it ends 33 minutes
\* from now and its done and 5min jobs wait at +33 and +28 minutes
C25_Witness ==
    /\ requests = 1
    /\ reply = "applied"
    /\ machines["9_washer_1"].status = "Running"
    /\ machines["9_washer_1"].current_user_id = 1
    /\ machines["9_washer_1"].end_time = now + 1980
    /\ \E j \in JobsFor(jobs, "done", "9_washer_1") : j.fireAt = now + 1980
    /\ \E j \in JobsFor(jobs, "5min", "9_washer_1") : j.fireAt = now + 1680

\* C27: every machine stored Running has a cycle as long as one of the buttons
\* of its kind.
C27_DurationAllowed ==
    \A mid \in MachineIds :
        machines[mid].status = "Running"
        => \E mins \in ButtonMins(mid) :
              machines[mid].end_time - machines[mid].start_time = mins * 60

\* the jobs of kind `kind` of machine mid in queue q, each counted as often as
\* it is queued
CountJobs(q, kind, mid) ==
    LET js == JobsFor(q, kind, mid) IN
    IF js = {} THEN 0 ELSE BagCardinality([j \in js |-> q[j]])

\* C26: after a start of the process that read the Registry, each machine
\* stored Running with `left` seconds to its cycle end has, when left > 0, one
\* done job at the cycle end and, exactly when left > 300, one 5min job 300
\* seconds before it; when left <= 0, one done job after the minimal delay and
\* no 5min job; all addressed to its owner.  No other job is pending.
C26_RehydrateRule ==
    [][Startup(TRUE) =>
          \A mid \in MachineIds :
            LET row == machines[mid]
                left == row.end_time - now
            IN  IF row.status = "Running"
                THEN /\ CountJobs(jobs', "done", mid) = 1
                     /\ \A j \in JobsFor(jobs', "done", mid) \cup JobsFor(jobs', "5min", mid) :
                            j.chat_id = row.current_user_id
                     /\ \A j \in JobsFor(jobs', "done", mid) :
                            j.fireAt = IF left > 0 THEN row.end_time ELSE now + 1
                     /\ CountJobs(jobs', "5min", mid) = IF left > 300 THEN 1 ELSE 0
                     /\ \A j \in JobsFor(jobs', "5min", mid) : j.fireAt = row.end_time - 300
                ELSE /\ CountJobs(jobs', "done", mid) = 0
                     /\ CountJobs(jobs', "5min", mid) = 0]_vars

\* the process has restarted exactly five minutes before the end of one cycle,
\* which got its done job and no warning, with the other machine's cycle more
\* than five minutes from its end and holding both jobs
C26_Witness ==
    /\ up /\ hydrated
    /\ \E m1, m2 \in MachineIds :
        /\ machines[m1].status = "Running" /\ machines[m1].end_time = now + 300
        /\ CountJobs(jobs, "done", m1) = 1 /\ CountJobs(jobs, "5min", m1) = 0
        /\ machines[m2].status = "Running" /\ machines[m2].end_time > now + 300
        /\ CountJobs(jobs, "done", m2) = 1 /\ CountJobs(jobs, "5min", m2) = 1

\* C28: a confirm_stop_ of the current owner that is applied stores the machine
\* Available with no current owner, no start, no end and no last ping, and
\* leaves no done and no 5min job pending for it; the other rows and the jobs
\* of the other machines stay.
C28_StopOwnToAvailable ==
    [][\A user \in Users, mid \in MachineIds :
          (/\ reply' = "applied"
           /\ machines[mid].current_user_id = user
           /\ ConfirmStop(user, mid))
          => (/\ machines'[mid].status = "Available"
              /\ machines'[mid].current_user_id = NoUser
              /\ machines'[mid].start_time = NoTime
              /\ machines'[mid].end_time = NoTime
              /\ machines'[mid].last_ping = NoTime
              /\ JobsFor(jobs', "done", mid) = {}
              /\ JobsFor(jobs', "5min", mid) = {}
              /\ \A other \in MachineIds \ {mid} :
                    /\ machines'[other] = machines[other]
                    /\ JobsFor(jobs', "done", other) = JobsFor(jobs, "done", other)
                    /\ JobsFor(jobs', "5min", other) = JobsFor(jobs, "5min", other))]_vars

\* user 1 started a washer and stopped it at once: it is Available again and
\* the two jobs, which were not due, are gone
C28_Witness ==
    /\ now = 0
    /\ requests = 2
    /\ reply = "applied"
    /\ jobs = EmptyBag
    /\ \E mid \in MachineIds :
        /\ cycle[mid] = 1
        /\ machines[mid].status = "Available"
        /\ machines[mid].last_user_id = 1
        /\ machines[mid].end_time = NoTime

\* C29: a force_, in either of its steps, leaves the start, the end, the last
\* owner and the last ping of the machine as they were and touches no other row.
C29_ForceStopFrame ==
    [][\A user \in Users :
          /\ \A mid \in MachineIds :
                ForceStop(user, mid) =>
                    /\ machines'[mid].start_time = machines[mid].start_time
                    /\ machines'[mid].end_time = machines[mid].end_time
                    /\ machines'[mid].last_user_id = machines[mid].last_user_id
                    /\ machines'[mid].last_ping = machines[mid].last_ping
                    /\ \A other \in MachineIds \ {mid} : machines'[other] = machines[other]
          /\ \A sent \in BOOLEAN :
                (pend[user].op = "force" /\ ForceStopResume(user, sent)) =>
                    LET mid == pend[user].mid IN
                    /\ machines'[mid].start_time = machines[mid].start_time
                    /\ machines'[mid].end_time = machines[mid].end_time
                    /\ machines'[mid].last_user_id = machines[mid].last_user_id
                    /\ machines'[mid].last_ping = machines[mid].last_ping
                    /\ \A other \in MachineIds \ {mid} : machines'[other] = machines[other]]_vars

\* at 1680 a force_ of user 2 has stopped the machine user 1 started at 0: it
\* is stored Finished and still starts at 0 and ends at 1980
C29_Witness ==
    /\ now = 1680
    /\ reply = "applied"
    /\ \E row \in DOMAIN audit_logs :
        /\ row.victim_id = 1 /\ row.offender_id = 2
        /\ machines[row.machine_id].status = "Finished"
        /\ machines[row.machine_id].current_user_id = NoUser
        /\ machines[row.machine_id].start_time = 0
        /\ machines[row.machine_id].end_time = 1980
        /\ machines[row.machine_id].last_user_id = 1

\* C31: in every state the stored status of a machine is Running exactly when
\* its stored current_user_id is set, and a machine stored Running has its
\* end_time set and its last_user_id equal to its current_user_id.
C31_StoredRowConsistent ==
    \A mid \in MachineIds :
        /\ machines[mid].status = "Running" <=> machines[mid].current_user_id # NoUser
        /\ machines[mid].status = "Running"
              => /\ machines[mid].end_time # NoTime
                 /\ machines[mid].last_user_id = machines[mid].current_user_id

\* one machine was started by user 1 and force-stopped by user 2, so it is
\* stored Finished without owner and with last owner 1; the other was started
\* by user 2 and is stored Running with owner and last owner 2
C31_Witness ==
    \E m1, m2 \in MachineIds :
        /\ machines[m1].status = "Finished"
        /\ machines[m1].current_user_id = NoUser
        /\ machines[m1].last_user_id = 1
        /\ machines[m2].status = "Running"
        /\ machines[m2].current_user_id = 2
        /\ machines[m2].last_user_id = 2
        /\ machines[m2].end_time > now

\* the FORCE_STOP rows of the audit log for machine mid, each counted as often
\* as it was inserted
ForceStopRows(logs, mid) ==
    LET rows == {row \in DOMAIN logs : row.event = "FORCE_STOP" /\ row.machine_id = mid} IN
    IF rows = {} THEN 0 ELSE BagCardinality([row \in rows |-> logs[row]])

\* C32: a cycle is force-stopped at most once: while no new cycle is started
\* on a machine, the audit log holds at most one FORCE_STOP row for it and at
\* most one handler is suspended on the notice to its owner.
C32_ForceStopOncePerCycle ==
    \A mid \in MachineIds :
        /\ ForceStopRows(audit_logs, mid) <= 1
        /\ Cardinality({u \in Users : pend[u].op = "force" /\ pend[u].mid = mid}) <= 1

\* C33: every start of the process runs its startup sequence to the end: the
\* process is up afterwards, and restore_timers has been called, so that the
\* job queue holds the jobs restored from the Registry whenever its read
\* succeeded, before any request is accepted.
C33_StartupCompletes ==
    [][\A dbOk \in BOOLEAN :
          StartupEvent(dbOk) =>
              /\ up'
              /\ hydrated' = dbOk
              /\ dbOk => jobs' = restore_timers(machines, now, cycle)]_vars

====
